---- MODULE Spec2Model ----
(***************************************************************************)
(* Model of poetry.installation.installer.Installer: the configuration     *)
(* flags with their fluent setters, run(), _do_install(), _execute() and   *)
(* _get_operations_from_lock(). The collaborators (Locker, Solver,         *)
(* InstalledRepository, PipInstaller, Repository) are modelled at their    *)
(* interface.                                                              *)
(***************************************************************************)
EXTENDS Integers, Sequences, FiniteSets, TLC

\* ---------------------------------------------------------------- bounds
MaxVersion == 2
MaxRuns == 2

\* ------------------------------------------------------------ data model
NameOrder == <<"a", "b">>
Names == {NameOrder[k] : k \in 1..Len(NameOrder)}
\* packages that only the development requirements pull in
DevNames == {"b"}
Versions == 1..MaxVersion

Package == [name : Names, version : Versions]
Pkg(n, v) == [name |-> n, version |-> v]
NoPackage == [name |-> "", version |-> 0]

\* poetry.puzzle.operations: Install, Update, Uninstall
InstallOp(p) ==
    [job_type |-> "install", package |-> p,
     initial_package |-> NoPackage, target_package |-> NoPackage]
UpdateOp(initial, target) ==
    [job_type |-> "update", package |-> target,
     initial_package |-> initial, target_package |-> target]
UninstallOp(p) ==
    [job_type |-> "uninstall", package |-> p,
     initial_package |-> NoPackage, target_package |-> NoPackage]

Range(s) == {s[k] : k \in 1..Len(s)}
SeqNames(s) == {s[k].name : k \in 1..Len(s)}

\* ordered package collections with at most one package per name
PackageLists ==
    {<<>>} \cup {<<p>> : p \in Package}
           \cup {pq \in {<<p, q>> : p, q \in Package} : pq[1].name # pq[2].name}

\* the target environment: name -> installed version, 0 when absent
Environments == [Names -> 0..MaxVersion]

VARIABLES
    dry_run, update, verbose, write_lock, dev_mode, execute_operations,
    requires, dev_requires,
    is_locked, lock_data,
    env,
    pc, ops, idx, local_repo, error,
    calls, lock_calls, updated_lock, reported, request, used,
    entry, env0, lock0, prev, runs, baseline, prev_forced

flags == <<dry_run, update, verbose, write_lock, dev_mode, execute_operations>>
package == <<requires, dev_requires>>
locker == <<is_locked, lock_data>>
frame == <<pc, ops, idx, local_repo, error>>
observed == <<calls, lock_calls, updated_lock, reported, request, used>>
history == <<entry, env0, lock0, prev, runs, baseline, prev_forced>>
vars == <<flags, package, locker, env, frame, observed, history>>

Flags ==
    [dry_run |-> dry_run, update |-> update, verbose |-> verbose,
     write_lock |-> write_lock, dev_mode |-> dev_mode,
     execute_operations |-> execute_operations]
LockState == [is_locked |-> is_locked, lock_data |-> lock_data]

NoReport == [installs |-> -1, updates |-> -1, uninstalls |-> -1]
NoRequest == <<"-">>

\* the root package's requirement lists as constructed
RootRequires == <<"r">>
RootDevRequires == <<"d">>

\* ------------------------------------------------- collaborators' contracts
\* Locker.locked_repository(with_dev_reqs): the locked packages, the
\* development-only entries included only when with_dev_reqs is set
LockedRepository(lock, with_dev_reqs) ==
    SelectSeq(lock.lock_data, LAMBDA p : with_dev_reqs \/ p.name \notin DevNames)

\* Locker.set_lock_data(root, packages): the persisted content changes only
\* when the new content differs from it
SetLockData(lock, packages) ==
    IF lock.is_locked /\ lock.lock_data = packages
    THEN lock
    ELSE [is_locked |-> TRUE, lock_data |-> packages]

\* InstalledRepository.load(venv): one snapshot of what is installed
InstalledRepositoryLoad(e) ==
    LET present == SelectSeq(NameOrder, LAMBDA n : e[n] # 0)
    IN  [k \in 1..Len(present) |-> Pkg(present[k], e[present[k]])]

\* PipInstaller.install / update / remove: the effect of one successful call
EnvApply(e, call) ==
    IF call.method = "install"
    THEN [e EXCEPT ![call.args[1].name] = call.args[1].version]
    ELSE IF call.method = "update"
    THEN [e EXCEPT ![call.args[2].name] = call.args[2].version]
    ELSE [e EXCEPT ![call.args[1].name] = 0]

\* Solver.solve(request, repository): an ordered operation list with at most
\* one operation per package name, of any of the three kinds
SolverOps ==
    {InstallOp(Pkg("a", MaxVersion)),
     UpdateOp(Pkg("b", 1), Pkg("b", MaxVersion)),
     UninstallOp(Pkg("b", 1))}
SolverPlans ==
    {<<>>} \cup {<<o>> : o \in SolverOps}
           \cup {oo \in {<<o1, o2>> : o1, o2 \in SolverOps} :
                    oo[1].package.name # oo[2].package.name}

\* ---------------------------------------------------------- Installer.run
\* the forcing left out
ForceUpdate_unforced(upd, locked) == upd

\* run(): "Force update if there is no lock file present"
ForceUpdate(upd, locked) == IF ~upd /\ ~locked THEN TRUE ELSE upd

\* a dry run that still executes
DryRunExecute_executing(dry, x) == x

\* run(): the three assignments under "if self.is_dry_run()"
DryRunVerbose(dry, v) == IF dry THEN TRUE ELSE v
DryRunWriteLock(dry, w) == IF dry THEN FALSE ELSE w
DryRunExecute(dry, x) == IF dry THEN FALSE ELSE x

\* the lock written whenever updating
ShouldWriteLock_always(upd, w) == upd

\* run(): "if self._update and self._write_lock"
ShouldWriteLock(upd, w) == upd /\ w

\* --------------------------------------------------- Installer._do_install
\* the lock always given to the Solver
LockedForSolver_hinted(upd, lock, dev) == LockedRepository(lock, dev)

\* locked_repository = Repository(), replaced by the Locker's "if we are
\* installing from lock"; it is what Solver(locked_repository, io) is given
LockedForSolver(upd, lock, dev) ==
    IF ~upd THEN LockedRepository(lock, dev) ELSE <<>>

\* request = self._package.requires; request += self._package.dev_requires
\* (request is the requires list itself, which += extends in place)
Request(reqs, dev_reqs, dev) == IF dev THEN reqs \o dev_reqs ELSE reqs

\* "if" for "elif": an update counted among the installs too
CountJobs_ifForElif(os, kind) ==
    Len(SelectSeq(os, LAMBDA o : o.job_type = kind
                                   \/ (kind = "install" /\ o.job_type = "update")))

\* the install / update / uninstall classification and its counts
CountJobs(os, kind) == Len(SelectSeq(os, LAMBDA o : o.job_type = kind))
Report(os, execute) ==
    IF os # <<>> /\ execute
    THEN [installs |-> CountJobs(os, "install"),
          updates |-> CountJobs(os, "update"),
          uninstalls |-> CountJobs(os, "uninstall")]
    ELSE NoReport

\* an update recorded by the package it replaces
AddPackage_initial(repo, op) ==
    IF op.job_type = "install" THEN Append(repo, op.package)
    ELSE IF op.job_type = "update" THEN Append(repo, op.initial_package)
    ELSE repo

\* the loop body's local_repo.add_package
AddPackage(repo, op) ==
    IF op.job_type = "install" THEN Append(repo, op.package)
    ELSE IF op.job_type = "update" THEN Append(repo, op.target_package)
    ELSE repo

\* update called with its two packages exchanged
Execute_exchanged(op) ==
    IF op.job_type = "install"
    THEN [method |-> "install", args |-> <<op.package>>]
    ELSE IF op.job_type = "update"
    THEN [method |-> "update", args |-> <<op.target_package, op.initial_package>>]
    ELSE [method |-> "remove", args |-> <<op.package>>]

\* _execute and _execute_install / _execute_update / _execute_uninstall
Execute(op) ==
    IF op.job_type = "install"
    THEN [method |-> "install", args |-> <<op.package>>]
    ELSE IF op.job_type = "update"
    THEN [method |-> "update", args |-> <<op.initial_package, op.target_package>>]
    ELSE [method |-> "remove", args |-> <<op.package>>]

\* one call received by the PipInstaller, and whether it raised
Called(call, raised) ==
    [method |-> call.method, args |-> call.args, raised |-> raised]

\* ------------------------------------- Installer._get_operations_from_lock
\* is_installed set only where the versions differ
ScanInstalled_flagInside(locked, installed_packages) ==
    LET scan[j \in 0..Len(installed_packages)] ==
            IF j = 0
            THEN [is_installed |-> FALSE, ops |-> <<>>]
            ELSE LET installed == installed_packages[j]
                     r == scan[j - 1]
                 IN  IF locked.name = installed.name
                        /\ locked.version # installed.version
                     THEN [is_installed |-> TRUE,
                           ops |-> Append(r.ops, UpdateOp(installed, locked))]
                     ELSE r
    IN  scan[Len(installed_packages)]

\* Update built with its two packages exchanged
ScanInstalled_exchanged(locked, installed_packages) ==
    LET scan[j \in 0..Len(installed_packages)] ==
            IF j = 0
            THEN [is_installed |-> FALSE, ops |-> <<>>]
            ELSE LET installed == installed_packages[j]
                     r == scan[j - 1]
                 IN  IF locked.name = installed.name
                     THEN [is_installed |-> TRUE,
                           ops |-> IF locked.version # installed.version
                                   THEN Append(r.ops, UpdateOp(locked, installed))
                                   ELSE r.ops]
                     ELSE r
    IN  scan[Len(installed_packages)]

\* the inner loop over installed_repo.packages for one locked package
ScanInstalled(locked, installed_packages) ==
    LET scan[j \in 0..Len(installed_packages)] ==
            IF j = 0
            THEN [is_installed |-> FALSE, ops |-> <<>>]
            ELSE LET installed == installed_packages[j]
                     r == scan[j - 1]
                 IN  IF locked.name = installed.name
                     THEN [is_installed |-> TRUE,
                           ops |-> IF locked.version # installed.version
                                   THEN Append(r.ops, UpdateOp(installed, locked))
                                   ELSE r.ops]
                     ELSE r
    IN  scan[Len(installed_packages)]

\* the installed packages that are not locked removed as well
GetOperationsFromLock_removing(locked_packages, installed_packages) ==
    LET outer[i \in 0..Len(locked_packages)] ==
            IF i = 0
            THEN <<>>
            ELSE LET locked == locked_packages[i]
                     r == ScanInstalled(locked, installed_packages)
                 IN  IF ~r.is_installed
                     THEN Append(outer[i - 1] \o r.ops, InstallOp(locked))
                     ELSE outer[i - 1] \o r.ops
        stale == SelectSeq(installed_packages,
                           LAMBDA p : p.name \notin SeqNames(locked_packages))
    IN  outer[Len(locked_packages)]
            \o [k \in 1..Len(stale) |-> UninstallOp(stale[k])]

GetOperationsFromLock(locked_packages, installed_packages) ==
    LET outer[i \in 0..Len(locked_packages)] ==
            IF i = 0
            THEN <<>>
            ELSE LET locked == locked_packages[i]
                     r == ScanInstalled(locked, installed_packages)
                 IN  IF ~r.is_installed
                     THEN Append(outer[i - 1] \o r.ops, InstallOp(locked))
                     ELSE outer[i - 1] \o r.ops
    IN  outer[Len(locked_packages)]

\* ------------------------------------------------------------------ Init
Init ==
    /\ dry_run = FALSE
    /\ update = FALSE
    /\ verbose = FALSE
    /\ write_lock = TRUE
    /\ dev_mode = TRUE
    /\ execute_operations = TRUE
    /\ requires = RootRequires
    /\ dev_requires = RootDevRequires
    /\ is_locked \in BOOLEAN
    /\ lock_data \in PackageLists
    /\ (~is_locked => lock_data = <<>>)
    /\ env \in Environments
    /\ pc = "idle"
    /\ ops = <<>>
    /\ idx = 1
    /\ local_repo = <<>>
    /\ error = "none"
    /\ calls = <<>>
    /\ lock_calls = <<>>
    /\ updated_lock = FALSE
    /\ reported = NoReport
    /\ request = NoRequest
    /\ used = {}
    /\ entry = Flags
    /\ env0 = env
    /\ lock0 = LockState
    /\ prev = "idle"
    /\ runs = 0
    /\ baseline = <<>>
    /\ prev_forced = FALSE

\* --------------------------------------------------------------- actions
CanCall == pc # "running"

\* run() up to the planning in _do_install: the flags are forced, request
\* is built, and the plan new_ops is reported; new_pc is "failed" when
\* planning raised
Begin(new_ops, new_pc, new_error, consulted, solved) ==
    /\ CanCall
    /\ runs < MaxRuns
    /\ update' = ForceUpdate(update, is_locked)
    /\ verbose' = DryRunVerbose(dry_run, verbose)
    /\ write_lock' = DryRunWriteLock(dry_run, write_lock)
    /\ execute_operations' = DryRunExecute(dry_run, execute_operations)
    /\ requires' = Request(requires, dev_requires, dev_mode)
    /\ UNCHANGED <<dry_run, dev_mode, dev_requires, locker, env>>
    /\ pc' = new_pc
    /\ ops' = new_ops
    /\ idx' = 1
    /\ local_repo' = <<>>
    /\ error' = new_error
    /\ calls' = <<>>
    /\ lock_calls' = <<>>
    /\ updated_lock' = FALSE
    /\ reported' = IF new_pc = "failed" THEN NoReport
                   ELSE Report(new_ops, execute_operations')
    /\ request' = IF solved THEN requires' ELSE NoRequest
    /\ used' = consulted
    /\ entry' = Flags
    /\ env0' = env
    /\ lock0' = LockState
    /\ prev' = pc
    /\ runs' = runs + 1
    /\ baseline' = LockedForSolver(update', LockState, dev_mode)
    /\ prev_forced' = (pc = "done" /\ ~entry.update /\ update)

\* run() in update mode: solver.solve returns a plan
RunSolve ==
    /\ ForceUpdate(update, is_locked)
    /\ \E plan \in SolverPlans :
          Begin(plan, "running", "none", {"solver"}, TRUE)

\* the Solver's exception swallowed, the run going on with no operation
RunSolveFails_swallowed ==
    /\ ForceUpdate(update, is_locked)
    /\ Begin(<<>>, "running", "ResolutionError", {"solver"}, TRUE)

\* run() in update mode: solver.solve raises
RunSolveFails ==
    /\ ForceUpdate(update, is_locked)
    /\ Begin(<<>>, "failed", "ResolutionError", {"solver"}, TRUE)

\* run() installing from the lock file
RunFromLock ==
    /\ ~ForceUpdate(update, is_locked)
    /\ Begin(GetOperationsFromLock(LockedRepository(LockState, dev_mode),
                                   InstalledRepositoryLoad(env)),
             "running", "none", {"locked_repository", "installed"}, FALSE)

\* the loop body without its call of _execute
ExecuteOp_notExecuting ==
    /\ pc = "running"
    /\ idx <= Len(ops)
    /\ local_repo' = AddPackage(local_repo, ops[idx])
    /\ idx' = idx + 1
    /\ UNCHANGED <<flags, package, locker, env, pc, ops, error>>
    /\ UNCHANGED <<observed, history>>

\* one iteration of "for op in ops", the backend call returning
ExecuteOp ==
    /\ pc = "running"
    /\ idx <= Len(ops)
    /\ local_repo' = AddPackage(local_repo, ops[idx])
    /\ IF execute_operations
       THEN /\ calls' = Append(calls, Called(Execute(ops[idx]), FALSE))
            /\ env' = EnvApply(env, Execute(ops[idx]))
       ELSE UNCHANGED <<calls, env>>
    /\ idx' = idx + 1
    /\ UNCHANGED <<flags, package, locker, pc, ops, error>>
    /\ UNCHANGED <<lock_calls, updated_lock, reported, request, used, history>>

\* the backend's exception swallowed, the loop going on
ExecuteOpFails_swallowed ==
    /\ pc = "running"
    /\ idx <= Len(ops)
    /\ execute_operations
    /\ local_repo' = AddPackage(local_repo, ops[idx])
    /\ calls' = Append(calls, Called(Execute(ops[idx]), TRUE))
    /\ idx' = idx + 1
    /\ UNCHANGED <<flags, package, locker, env, pc, ops, error>>
    /\ UNCHANGED <<lock_calls, updated_lock, reported, request, used, history>>

\* one iteration of "for op in ops", the backend call raising
ExecuteOpFails ==
    /\ pc = "running"
    /\ idx <= Len(ops)
    /\ execute_operations
    /\ local_repo' = AddPackage(local_repo, ops[idx])
    /\ calls' = Append(calls, Called(Execute(ops[idx]), TRUE))
    /\ pc' = "failed"
    /\ error' = "ExecutionError"
    /\ UNCHANGED <<flags, package, locker, env, ops, idx>>
    /\ UNCHANGED <<lock_calls, updated_lock, reported, request, used, history>>

\* the lock written while operations are still to be executed
Return_early ==
    /\ pc = "running"
    /\ IF ShouldWriteLock(update, write_lock)
       THEN /\ lock_calls' = Append(lock_calls, local_repo)
            /\ updated_lock' = (SetLockData(LockState, local_repo) # LockState)
            /\ is_locked' = SetLockData(LockState, local_repo).is_locked
            /\ lock_data' = SetLockData(LockState, local_repo).lock_data
            /\ pc' = IF idx > Len(ops) THEN "done" ELSE "running"
       ELSE /\ idx > Len(ops)
            /\ pc' = "done"
            /\ UNCHANGED <<lock_calls, updated_lock, locker>>
    /\ UNCHANGED <<flags, package, env, ops, idx, local_repo, error>>
    /\ UNCHANGED <<calls, reported, request, used, history>>

\* the flags put back to what they were at the call
Return_restoring ==
    /\ pc = "running"
    /\ idx > Len(ops)
    /\ IF ShouldWriteLock(update, write_lock)
       THEN /\ lock_calls' = Append(lock_calls, local_repo)
            /\ updated_lock' = (SetLockData(LockState, local_repo) # LockState)
            /\ is_locked' = SetLockData(LockState, local_repo).is_locked
            /\ lock_data' = SetLockData(LockState, local_repo).lock_data
       ELSE UNCHANGED <<lock_calls, updated_lock, locker>>
    /\ pc' = "done"
    /\ update' = entry.update
    /\ UNCHANGED <<dry_run, verbose, write_lock, dev_mode, execute_operations>>
    /\ UNCHANGED <<package, env, ops, idx, local_repo, error>>
    /\ UNCHANGED <<calls, reported, request, used, history>>

\* run() after _do_install: the lock write and "return 0"
Return ==
    /\ pc = "running"
    /\ idx > Len(ops)
    /\ IF ShouldWriteLock(update, write_lock)
       THEN /\ lock_calls' = Append(lock_calls, local_repo)
            /\ updated_lock' = (SetLockData(LockState, local_repo) # LockState)
            /\ is_locked' = SetLockData(LockState, local_repo).is_locked
            /\ lock_data' = SetLockData(LockState, local_repo).lock_data
       ELSE UNCHANGED <<lock_calls, updated_lock, locker>>
    /\ pc' = "done"
    /\ UNCHANGED <<flags, package, env, ops, idx, local_repo, error>>
    /\ UNCHANGED <<calls, reported, request, used, history>>

\* run() after _do_install: set_lock_data raises
SetLockDataFails ==
    /\ pc = "running"
    /\ idx > Len(ops)
    /\ ShouldWriteLock(update, write_lock)
    /\ lock_calls' = Append(lock_calls, local_repo)
    /\ pc' = "failed"
    /\ error' = "PersistenceError"
    /\ UNCHANGED <<flags, package, locker, env, ops, idx, local_repo>>
    /\ UNCHANGED <<calls, updated_lock, reported, request, used, history>>

\* a fluent setter is called between runs; what was observed of the last
\* run is dropped
Configure ==
    /\ CanCall
    /\ runs < MaxRuns
    /\ pc' = "idle"
    /\ ops' = <<>>
    /\ idx' = 1
    /\ local_repo' = <<>>
    /\ error' = "none"
    /\ calls' = <<>>
    /\ lock_calls' = <<>>
    /\ updated_lock' = FALSE
    /\ reported' = NoReport
    /\ request' = NoRequest
    /\ used' = {}
    /\ entry' = Flags'
    /\ env0' = env
    /\ lock0' = LockState
    /\ prev' = "idle"
    /\ baseline' = <<>>
    /\ prev_forced' = FALSE
    /\ UNCHANGED <<package, locker, env, runs>>

\* dry_run(False) putting write_lock back
DryRun_restoring(b) ==
    /\ dry_run' = b
    /\ write_lock' = (write_lock \/ ~b)
    /\ UNCHANGED <<update, verbose, dev_mode, execute_operations>>
    /\ Configure

DryRun(b) ==
    /\ dry_run' = b
    /\ UNCHANGED <<update, verbose, write_lock, dev_mode, execute_operations>>
    /\ Configure

Verbose(b) ==
    /\ verbose' = b
    /\ UNCHANGED <<dry_run, update, write_lock, dev_mode, execute_operations>>
    /\ Configure

DevMode(b) ==
    /\ dev_mode' = b
    /\ UNCHANGED <<dry_run, update, verbose, write_lock, execute_operations>>
    /\ Configure

Update(b) ==
    /\ update' = b
    /\ UNCHANGED <<dry_run, verbose, write_lock, dev_mode, execute_operations>>
    /\ Configure

ExecuteOperations(b) ==
    /\ execute_operations' = b
    /\ UNCHANGED <<dry_run, update, verbose, write_lock, dev_mode>>
    /\ Configure

Next ==
    \/ RunSolve
    \/ RunSolveFails
    \/ RunFromLock
    \/ ExecuteOp
    \/ ExecuteOpFails
    \/ Return
    \/ SetLockDataFails
    \/ \E b \in BOOLEAN : DryRun(b)
    \/ \E b \in BOOLEAN : Verbose(b)
    \/ \E b \in BOOLEAN : DevMode(b)
    \/ \E b \in BOOLEAN : Update(b)
    \/ \E b \in BOOLEAN : ExecuteOperations(b)

Spec == Init /\ [][Next]_vars


\* ---------------------------------------------------------------- claims
\* what the design says each kind of operation asks of the backend
ExpectedCall(op) ==
    CASE op.job_type = "install" ->
            [method |-> "install", args |-> <<op.package>>, raised |-> FALSE]
      [] op.job_type = "update" ->
            [method |-> "update",
             args |-> <<op.initial_package, op.target_package>>, raised |-> FALSE]
      [] op.job_type = "uninstall" ->
            [method |-> "remove", args |-> <<op.package>>, raised |-> FALSE]

\* what the design says each kind of operation does to the environment
ExpectedEffect(e, op) ==
    CASE op.job_type = "install" -> [e EXCEPT ![op.package.name] = op.package.version]
      [] op.job_type = "update" ->
            [e EXCEPT ![op.target_package.name] = op.target_package.version]
      [] op.job_type = "uninstall" -> [e EXCEPT ![op.package.name] = 0]

\* the environment e after the first n operations of os
EnvAfter(e, os, n) ==
    LET after[j \in 0..n] == IF j = 0 THEN e ELSE ExpectedEffect(after[j - 1], os[j])
    IN  after[n]

InRun == pc # "idle"
Replaying == InRun /\ "installed" \in used

\* C1: a run called with dry_run set makes no backend call and no
\* set_lock_data call, and leaves the environment and the persisted lock as
\* they were, whatever the other flags were
C1_DryRunTouchesNothing ==
    (InRun /\ entry.dry_run) =>
        /\ calls = <<>>
        /\ lock_calls = <<>>
        /\ env = env0
        /\ LockState = lock0

C1_Witness ==
    /\ pc = "done"
    /\ entry.dry_run
    /\ entry.update
    /\ entry.write_lock
    /\ entry.execute_operations
    /\ Len(ops) = 2

\* C2: in a run that returns, the persisted lock changes iff update and
\* write_lock hold and the result set differs from the content persisted
\* before; the content written is the result set; while a run is under way
\* or has failed the persisted lock is the one from before the run
C2_LockWrittenIff ==
    /\ pc = "done" =>
          /\ (LockState # lock0) <=>
                (update /\ write_lock
                   /\ ~(lock0.is_locked /\ lock0.lock_data = local_repo))
          /\ updated_lock <=> (LockState # lock0)
          /\ (LockState # lock0) => (is_locked /\ lock_data = local_repo)
    /\ pc \in {"running", "failed"} => LockState = lock0

C2_Witness ==
    /\ pc = "done"
    /\ update
    /\ write_lock
    /\ lock0.is_locked
    /\ lock0.lock_data # <<>>
    /\ LockState # lock0

\* C3: when the backend call for the k-th operation raises, it is the last
\* backend call of the run, the calls made are those of operations 1..k in
\* order, set_lock_data is not called and the lock is unchanged, the run has
\* failed instead of returning, and the environment is the one that
\* operations 1..k-1 leave
C3_FailureStopsRun ==
    \A k \in 1..Len(calls) :
        calls[k].raised =>
            /\ k = Len(calls)
            /\ k <= Len(ops)
            /\ \A j \in 1..k : calls[j] = [ExpectedCall(ops[j]) EXCEPT !.raised = (j = k)]
            /\ pc = "failed"
            /\ error = "ExecutionError"
            /\ lock_calls = <<>>
            /\ LockState = lock0
            /\ env = EnvAfter(env0, ops, k - 1)

C3_Witness ==
    /\ pc = "failed"
    /\ Len(calls) = 2
    /\ calls[2].raised
    /\ env # env0
    /\ update
    /\ write_lock

\* C4: with execute_operations set, the backend calls made so far are the
\* planned operations handled so far, one call each, in list order; at
\* return every operation of the plan has had its call
C4_CallsFollowPlan ==
    (InRun /\ execute_operations /\ error # "ExecutionError") =>
        /\ Len(calls) = idx - 1
        /\ \A k \in 1..Len(calls) : calls[k] = ExpectedCall(ops[k])
        /\ pc = "done" => Len(calls) = Len(ops)

C4_Witness ==
    /\ pc = "done"
    /\ execute_operations
    /\ Len(ops) = 2
    /\ ops[1].job_type = "update"
    /\ ops[2].job_type = "install"
    /\ Len(calls) = 2

\* C7: a run called while no lock is persisted plans with the Solver alone
\* and has update set, whatever update was when run() was called
C7_NoLockForcesUpdate ==
    (InRun /\ ~lock0.is_locked) => (used = {"solver"} /\ update)

C7_Witness ==
    /\ pc = "done"
    /\ ~lock0.is_locked
    /\ ~entry.update
    /\ ops # <<>>

\* the packages locked for the run under way, as the Reconciler is given them
LockedForRun == LockedRepository(lock0, dev_mode)
LockedVersion(n) ==
    LET at == {k \in 1..Len(LockedForRun) : LockedForRun[k].name = n}
    IN  IF at = {} THEN 0 ELSE LockedForRun[CHOOSE k \in at : TRUE].version
LockedPosition(n) == CHOOSE k \in 1..Len(LockedForRun) : LockedForRun[k].name = n
OpsOf(kind, n) ==
    {k \in 1..Len(ops) : ops[k].job_type = kind /\ ops[k].package.name = n}

\* C5: in lock-replay mode the plan holds, for each name, one Update iff
\* the name is locked and installed at a different version, one Install iff
\* it is locked and not installed, and nothing else; each operation carries
\* the locked package; the operations follow the locked set's order
C5_ReconcilerDiff ==
    Replaying =>
        /\ \A n \in Names :
              /\ Cardinality(OpsOf("update", n)) =
                    IF LockedVersion(n) # 0 /\ env0[n] # 0 /\ env0[n] # LockedVersion(n)
                    THEN 1 ELSE 0
              /\ Cardinality(OpsOf("install", n)) =
                    IF LockedVersion(n) # 0 /\ env0[n] = 0 THEN 1 ELSE 0
              /\ OpsOf("uninstall", n) = {}
        /\ \A k \in 1..Len(ops) :
              /\ ops[k].package.name \in Names
              /\ ops[k].package.version = LockedVersion(ops[k].package.name)
        /\ \A j, k \in 1..Len(ops) :
              j < k => LockedPosition(ops[j].package.name)
                           < LockedPosition(ops[k].package.name)

C5_Witness ==
    /\ Replaying
    /\ Len(ops) = 2
    /\ ops[1].job_type = "install"
    /\ ops[1].package.name = "b"
    /\ ops[2].job_type = "update"
    /\ ops[2].package.name = "a"

\* C6 as stated: a lock-replay run called right after a lock-replay run
\* that returned plans no operation
C6_SecondReplayEmpty ==
    (Replaying /\ prev = "done" /\ ~entry.update) => ops = <<>>

\* C6 amended: a lock-replay run called right after a lock-replay run that
\* returned with execute_operations set plans no operation
C6_SecondReplayEmptyAfterExecution ==
    (Replaying /\ prev = "done" /\ ~entry.update /\ entry.execute_operations) =>
        ops = <<>>

C6_Witness ==
    /\ Replaying
    /\ prev = "done"
    /\ ~entry.update
    /\ entry.execute_operations
    /\ Len(LockedForRun) = 2
    /\ ops = <<>>
    /\ pc = "done"

\* C8: a dry run whose plan is not empty reports the plan's install, update
\* and uninstall counts, as the run without dry_run does
C8_DryRunReportsCounts ==
    (InRun /\ pc # "failed" /\ dry_run /\ ops # <<>>) =>
        reported = [installs |-> Cardinality({k \in 1..Len(ops) : ops[k].job_type = "install"}),
                    updates |-> Cardinality({k \in 1..Len(ops) : ops[k].job_type = "update"}),
                    uninstalls |-> Cardinality({k \in 1..Len(ops) : ops[k].job_type = "uninstall"})]

\* the locked packages the run found installed at their locked version
Satisfied ==
    IF Replaying
    THEN {p \in Range(LockedForRun) : env0[p.name] = p.version}
    ELSE {}
\* what the operations of the plan contribute to the result set, in order
Contributed ==
    LET adding == SelectSeq(ops, LAMBDA o : o.job_type \in {"install", "update"})
    IN  [k \in 1..Len(adding) |->
            IF adding[k].job_type = "install" THEN adding[k].package
            ELSE adding[k].target_package]

\* C9 as stated: after a run that returned, the result set is the packages
\* already satisfied together with those its operations installed or updated
C9_ResultIsSatisfiedAndNew ==
    pc = "done" => Range(local_repo) = Satisfied \cup Range(Contributed)

\* C9 amended: after a run that returned, the result set is exactly the
\* packages of the plan's Install operations and the target packages of its
\* Update operations, in plan order, and it is the list given to
\* set_lock_data when that is called
C9_ResultIsContributed ==
    pc = "done" =>
        /\ local_repo = Contributed
        /\ \A k \in 1..Len(lock_calls) : lock_calls[k] = local_repo

C9_Witness ==
    /\ pc = "done"
    /\ Len(ops) = 2
    /\ ops[1].job_type = "update"
    /\ ops[2].job_type = "install"
    /\ lock_calls = <<local_repo>>
    /\ Len(local_repo) = 2

\* C10: a lock-replay run plans no Uninstall and never calls remove, and a
\* package installed but not locked stays installed at its version
C10_ReplayNeverRemoves ==
    Replaying =>
        /\ \A k \in 1..Len(ops) : ops[k].job_type # "uninstall"
        /\ \A k \in 1..Len(calls) : calls[k].method # "remove"
        /\ \A n \in Names :
              (env0[n] # 0 /\ LockedVersion(n) = 0) => env[n] = env0[n]

C10_Witness ==
    /\ Replaying
    /\ pc = "done"
    /\ calls # <<>>
    /\ \E n \in Names : env0[n] # 0 /\ LockedVersion(n) = 0

\* C11: when solver.solve raises, the run has failed with no backend call
\* and no set_lock_data call made, and with the environment and the
\* persisted lock as they were
C11_SolverFailureTouchesNothing ==
    error = "ResolutionError" =>
        /\ pc = "failed"
        /\ calls = <<>>
        /\ lock_calls = <<>>
        /\ env = env0
        /\ LockState = lock0

C11_Witness ==
    /\ error = "ResolutionError"
    /\ pc = "failed"
    /\ entry.write_lock
    /\ entry.execute_operations
    /\ ~entry.dry_run
    /\ lock0.lock_data # <<>>

\* the number of operations of one kind in the plan
KindCount(kind) == Cardinality({k \in 1..Len(ops) : ops[k].job_type = kind})

\* C12: the counts a run reports are the numbers of Install, Update and
\* Uninstall operations of its plan, and they add up to the plan's length
C12_CountsMatchPlan ==
    reported # NoReport =>
        /\ reported.installs = KindCount("install")
        /\ reported.updates = KindCount("update")
        /\ reported.uninstalls = KindCount("uninstall")
        /\ reported.installs + reported.updates + reported.uninstalls = Len(ops)

C12_Witness ==
    /\ reported # NoReport
    /\ reported.installs = 1
    /\ reported.updates = 1
    /\ reported.uninstalls = 0

\* C13: the persisted lock changes only through set_lock_data, which a run
\* calls at most once, after the last operation of the plan was handled and
\* every backend call returned; the run is over once it is called
C13_LockWriteIsLast ==
    /\ Len(lock_calls) <= 1
    /\ LockState # lock0 => Len(lock_calls) = 1
    /\ lock_calls # <<>> =>
          /\ pc \in {"done", "failed"}
          /\ idx = Len(ops) + 1
          /\ \A k \in 1..Len(calls) : ~calls[k].raised
          /\ execute_operations => Len(calls) = Len(ops)

C13_Witness ==
    /\ pc = "done"
    /\ Len(lock_calls) = 1
    /\ Len(calls) = 2
    /\ LockState # lock0

\* C14: the requirement list given to solver.solve is the root package's
\* runtime requirements, followed by its development requirements iff
\* dev_mode is set for that run
C14_RequestIsRootRequirements ==
    request # NoRequest =>
        request = IF dev_mode THEN RootRequires \o RootDevRequires ELSE RootRequires

\* C15: when run() returns, every flag has the value it had when run() was
\* called
C15_FlagsUnchangedByRun ==
    pc = "done" => Flags = entry

\* C16: every Update of a lock-replay plan goes from the installed package
\* to the locked package, whichever version is the greater, and after a
\* lock-replay run that returned with execute_operations set every locked
\* package is installed at its locked version
C16_UpdatesTowardLocked ==
    Replaying =>
        /\ \A k \in 1..Len(ops) :
              ops[k].job_type = "update" =>
                  /\ ops[k].initial_package =
                        Pkg(ops[k].package.name, env0[ops[k].package.name])
                  /\ ops[k].target_package =
                        Pkg(ops[k].package.name, LockedVersion(ops[k].package.name))
                  /\ ops[k].initial_package # ops[k].target_package
        /\ (pc = "done" /\ execute_operations) =>
              \A n \in Names : LockedVersion(n) # 0 => env[n] = LockedVersion(n)

C16_Witness ==
    /\ Replaying
    /\ pc = "done"
    /\ execute_operations
    /\ \E k \in 1..Len(ops) :
          /\ ops[k].job_type = "update"
          /\ ops[k].initial_package.version > ops[k].target_package.version

\* C17: a run plans with one producer: in update mode solver.solve is
\* called, on a Solver given an empty locked repository, and neither the
\* Locker's locked repository nor the installed packages are read; in
\* lock-replay mode solver.solve is not called and the Locker's locked
\* repository and the installed packages are read
C17_OneProducer ==
    InRun =>
        IF update
        THEN /\ used = {"solver"}
             /\ request # NoRequest
             /\ baseline = <<>>
        ELSE /\ used = {"locked_repository", "installed"}
             /\ request = NoRequest
             /\ baseline = LockedRepository(lock0, dev_mode)

C17_Witness ==
    /\ pc = "done"
    /\ update
    /\ lock0.lock_data # <<>>
    /\ \E n \in Names : env0[n] # 0
    /\ ops # <<>>
    /\ baseline = <<>>

\* C18: the first run of an Installer leaves the root package's runtime and
\* development requirement lists as they were constructed
C18_RootPackageUnchanged ==
    (pc = "done" /\ runs = 1) =>
        (requires = RootRequires /\ dev_requires = RootDevRequires)

\* C19: a run called with dry_run set leaves write_lock false, no step
\* (a setter, a later run) sets write_lock again, and a run with write_lock
\* false does not call set_lock_data
C19_DryRunStopsLockWrites ==
    [][/\ ~write_lock => ~write_lock'
       /\ (pc' # "idle" /\ entry'.dry_run) => ~write_lock'
       /\ ~write_lock' => lock_calls' = <<>>]_vars

C19_Witness ==
    /\ pc = "done"
    /\ ~entry.write_lock
    /\ ~entry.dry_run
    /\ update
    /\ execute_operations
    /\ calls # <<>>
    /\ local_repo # lock_data
    /\ lock_calls = <<>>

\* C20: update goes from true to false only in a setter call, never in a
\* step of run(); a run called with update set, and so a run called right
\* after a run that forced update, plans with the Solver alone even when a
\* lock is persisted
C20_ForcedUpdateSticks ==
    [][/\ (update /\ ~update') => pc' = "idle"
       /\ (pc' # "idle" /\ (entry'.update \/ prev_forced')) =>
             (update' /\ used' = {"solver"})]_vars

C20_Witness ==
    /\ prev_forced
    /\ pc = "done"
    /\ lock0.is_locked
    /\ used = {"solver"}
    /\ ~dry_run
    /\ ops # <<>>

====
